---- MODULE Spec2Model ----
(***************************************************************************)
(* Model of the chunk planner of src/lambdas/chunk_audio/lambda_function.py *)
(* (split_audio_to_chunks).  Time is counted in integer ticks: the planner  *)
(* only adds, subtracts, compares and takes minima of its four quantities,  *)
(* so every rational input is an integer input after rescaling.             *)
(*                                                                         *)
(* Downstream of the planner: the chunk diarizer of                        *)
(* src/lambdas/diarize/lambda_function.py (handle_chunk_input and          *)
(* extract_speaker_embeddings) and the aggregator of                       *)
(* src/lambdas/aggregate_results/lambda_function.py.  Turn times are       *)
(* counted in quarter seconds; an embedding is kept as an exact fraction   *)
(* (a vector of numerators over one denominator).                          *)
(***************************************************************************)
EXTENDS Integers, Sequences, FiniteSets, TLC

VARIABLES
    chunk_duration,      \* parameter chunk_duration of split_audio_to_chunks
    overlap_duration,    \* parameter overlap_duration of split_audio_to_chunks
    min_chunk_duration,  \* module global MIN_CHUNK_DURATION as read from the environment
    total_duration,      \* local total_duration (what ffprobe reported)
    chunks,              \* local list chunks
    chunk_index,         \* local chunk_index
    current_pos,         \* local current_pos
    pc,                  \* "idle" | "loop" | "returned" | "raised"
    merged,              \* TRUE when the loop was left through the break of line 108
    raised,              \* the exception that ended the call, "none" otherwise
    calls,               \* number of calls of split_audio_to_chunks started so far
    snap,                \* the arguments and the result of one earlier completed call
    plan,                \* the "chunks" array handed to the fan-out, one event per chunk
    turns,               \* per chunk: the turns pyannote finds in it, each with what
                         \* embedding_model.crop does on its span
    s3,                  \* the objects written to the output bucket
    dstate,              \* per chunk: "pending" | "stored" | "raised" (handle_chunk_input)
    astate,              \* "idle" | "written" | "raised" (aggregate_results.lambda_handler)
    aevent,              \* event["transcription_results"] of the aggregator, "none" before
    aresponse,           \* what aggregate_results.lambda_handler returned, "none" before
    hpc,                 \* where chunk_audio.lambda_handler stands ("off": not invoked)
    hevent,              \* which keys its event has
    tmp,                 \* the files under /tmp: audio.wav and the chunk directory
    hlocals,             \* its locals: audio_duration, chunks, and counts of the
                         \* S3 downloads and uploads performed
    hs3,                 \* the chunk objects it has uploaded
    hresult,             \* how it ended: nothing yet, a response, or an exception
    levent,              \* which keys the event of diarize.lambda_handler has, and the
                         \* chunk of the plan its "chunk" is
    lpc,                 \* where diarize.lambda_handler stands ("off": not invoked)
    lresult,             \* how the invocation ended, and through which handler function
    linvocations,        \* number of invocations of diarize.lambda_handler so far
    ldownloads,          \* number of s3.download_file calls they made
    item,                \* the record of the user in the token table
    now,                 \* datetime.utcnow(), in units of 25 s
    tpc,                 \* where get_valid_credentials stands ("off": not called)
    credentials,         \* its local Credentials object
    tresult,             \* how the call ended: a returned Credentials or an exception
    tcalls,              \* number of calls of get_valid_credentials so far
    trefreshes           \* number of credentials.refresh calls made so far

planner_vars == << chunk_duration, overlap_duration, min_chunk_duration, total_duration,
                   chunks, chunk_index, current_pos, pc, merged, raised, calls, snap >>

pipeline_vars == << plan, turns, s3, dstate, astate, aevent, aresponse >>

handler_vars == << hpc, hevent, tmp, hlocals, hs3, hresult >>

lambda_vars == << levent, lpc, lresult, linvocations, ldownloads >>

token_vars == << item, now, tpc, credentials, tresult, tcalls, trefreshes >>

vars == << planner_vars, pipeline_vars, handler_vars, lambda_vars, token_vars >>

\* ---------------------------------------------------------------- bounds
MaxChunkDuration == 4
MaxMinChunk == 4
MaxTotal == 12
MaxChunks == 13
MaxCalls == 3

\* ------------------------------------------------------ program constants
CHUNK_DURATION == 480
OVERLAP_DURATION == 30
MIN_CHUNK_DURATION == 60

\* The durations the repository's tests feed to the planner under the defaults.
TestDurations == {120, 480, 600, 950, 960, 1200, 2400, 2520}

Min(a, b) == IF a < b THEN a ELSE b

\* ------------------------------------------------------------ the planner
\* step = chunk_duration - overlap_duration
step == chunk_duration - overlap_duration

\* chunk_end = min(chunk_start + chunk_duration + overlap_duration, total_duration)
chunk_end(chunk_start) ==
    Min(chunk_start + chunk_duration + overlap_duration, total_duration)

\* remaining = total_duration - chunk_start
remaining(chunk_start) == total_duration - chunk_start

\* effective_end = min(chunk_start + chunk_duration, total_duration)
effective_end(chunk_start) == Min(chunk_start + chunk_duration, total_duration)

\* a mutant of IsShortTail: a remainder of exactly MIN_CHUNK_DURATION is merged too
IsShortTailInclusive(chunk_start, index) ==
    remaining(chunk_start) <= min_chunk_duration /\ index > 0

\* a mutant of IsShortTail: the test of chunk_index > 0 is forgotten
IsShortTailAnyIndex(chunk_start, index) ==
    remaining(chunk_start) < min_chunk_duration

\* a mutant of IsShortTail: a short remainder is never merged
IsShortTailNever(chunk_start, index) == FALSE

\* if remaining < MIN_CHUNK_DURATION and chunk_index > 0
IsShortTail(chunk_start, index) ==
    remaining(chunk_start) < min_chunk_duration /\ index > 0

\* the mutant of ExtendPrevious: the break is taken without extending
LeavePrevious(cs) == cs

\* if chunks: chunks[-1]["effective_end"] = total_duration
ExtendPrevious(cs) ==
    IF cs # << >>
    THEN [cs EXCEPT ![Len(cs)].effective_end = total_duration]
    ELSE cs

\* the decimal digits of a natural number, most significant first
RECURSIVE digits(_)
digits(n) == IF n < 10 THEN << n >> ELSE Append(digits(n \div 10), n % 10)

\* f"{chunk_index:02d}": padded to two digits, never truncated
format_02d(n) == IF n < 10 THEN << 0, n >> ELSE digits(n)

\* os.path.join(output_dir, f"{base_name}_chunk_{chunk_index:02d}.wav")
output_path(index) == << "chunk", format_02d(index) >>

\* the mutant of NewChunk: the physical slice carries no overlap
NewChunkNoOverlap(chunk_start, index) ==
    [ chunk_index     |-> index,
      local_path      |-> output_path(index),
      offset          |-> chunk_start,
      duration        |-> effective_end(chunk_start) - chunk_start,
      effective_start |-> chunk_start,
      effective_end   |-> effective_end(chunk_start) ]

\* the dict appended to chunks
NewChunk(chunk_start, index) ==
    [ chunk_index     |-> index,
      local_path      |-> output_path(index),
      offset          |-> chunk_start,
      duration        |-> chunk_end(chunk_start) - chunk_start,
      effective_start |-> chunk_start,
      effective_end   |-> effective_end(chunk_start) ]

\* the mutant of NextPos: the position advances by the physical slice length
NextPosPastSlice(pos) == pos + chunk_duration + overlap_duration

\* current_pos += step
NextPos(pos) == pos + step

\* the mutant of FreshChunks: the list of the previous call is reused
StaleChunks == chunks

\* chunks = []
FreshChunks == << >>

NoSnap == [ taken |-> FALSE ]

\* chunk_audio.lambda_handler has not been invoked
HandlerOff ==
    /\ hpc = "off"
    /\ hevent = [ bucket |-> FALSE, audio_key |-> FALSE ]
    /\ tmp = [ audio |-> FALSE, chunks |-> {} ]
    /\ hlocals = [ audio_duration |-> 0, chunks |-> << >>, downloads |-> 0, uploads |-> 0 ]
    /\ hs3 = {}
    /\ hresult = [ kind |-> "none" ]

\* diarize.lambda_handler is not part of the run
LambdaOff ==
    /\ levent = [ chunk |-> FALSE, audio_key |-> FALSE, bucket |-> FALSE, index |-> 1 ]
    /\ lpc = "off"
    /\ lresult = [ kind |-> "none" ]
    /\ linvocations = 0
    /\ ldownloads = 0

\* get_stored_token returns None: the table has no record of the user
NoItem ==
    [ present |-> FALSE, access_token |-> 0, has_refresh_token |-> FALSE,
      has_expires_at |-> FALSE, expires_at |-> 0, updated_at |-> 0 ]

\* no Credentials object has been built
NoCredentials ==
    [ token |-> 0, has_refresh_token |-> FALSE, has_expiry |-> FALSE, expiry |-> 0 ]

\* get_valid_credentials is not part of the run
TokenOff ==
    /\ item = NoItem
    /\ now = 0
    /\ tpc = "off"
    /\ credentials = NoCredentials
    /\ tresult = [ kind |-> "none" ]
    /\ tcalls = 0
    /\ trefreshes = 0

\* The values get_audio_duration can report for the configuration at hand.
Durations ==
    IF chunk_duration = CHUNK_DURATION THEN TestDurations \cup {0} ELSE 0..MaxTotal

Init ==
    /\ \/ /\ chunk_duration \in 1..MaxChunkDuration
          /\ overlap_duration \in 0..MaxChunkDuration
          /\ overlap_duration <= chunk_duration
          /\ min_chunk_duration \in 0..MaxMinChunk
       \/ /\ chunk_duration = CHUNK_DURATION
          /\ overlap_duration = OVERLAP_DURATION
          /\ min_chunk_duration = MIN_CHUNK_DURATION
    /\ total_duration = 0
    /\ chunks = << >>
    /\ chunk_index = 0
    /\ current_pos = 0
    /\ pc = "idle"
    /\ merged = FALSE
    /\ raised = "none"
    /\ calls = 0
    /\ snap = NoSnap
    /\ plan = << >>
    /\ turns = << >>
    /\ s3 = {}
    /\ dstate = << >>
    /\ astate = "idle"
    /\ aevent = "none"
    /\ aresponse = "none"
    /\ HandlerOff
    /\ LambdaOff
    /\ TokenOff

\* split_audio_to_chunks is entered and get_audio_duration returns d
Call ==
    /\ pc \in {"idle", "returned", "raised"}
    /\ calls < MaxCalls
    /\ \E d \in Durations : total_duration' = d
    /\ chunks' = FreshChunks
    /\ chunk_index' = 0
    /\ current_pos' = 0
    /\ pc' = "loop"
    /\ merged' = FALSE
    /\ raised' = "none"
    /\ calls' = calls + 1
    /\ UNCHANGED << chunk_duration, overlap_duration, min_chunk_duration, snap >>
    /\ UNCHANGED pipeline_vars
    /\ UNCHANGED << handler_vars, lambda_vars, token_vars >>

\* split_audio_to_chunks is entered and get_audio_duration raises; the
\* exception unwinds the frame, no local survives
ProbeFails ==
    /\ pc \in {"idle", "returned", "raised"}
    /\ calls < MaxCalls
    /\ pc' = "raised"
    /\ raised' = "ProbeError"
    /\ calls' = calls + 1
    /\ total_duration' = 0
    /\ chunks' = << >>
    /\ chunk_index' = 0
    /\ current_pos' = 0
    /\ merged' = FALSE
    /\ UNCHANGED << chunk_duration, overlap_duration, min_chunk_duration, snap >>
    /\ UNCHANGED pipeline_vars
    /\ UNCHANGED << handler_vars, lambda_vars, token_vars >>

\* return chunks; an observer may keep the arguments and the result
Return(result) ==
    /\ chunks' = result
    /\ pc' = "returned"
    /\ \/ snap' = snap
       \/ /\ ~snap.taken
          /\ snap' = [ taken |-> TRUE, call |-> calls,
                       total_duration |-> total_duration, chunks |-> result ]

\* while current_pos < total_duration: condition false
LoopExit ==
    /\ pc = "loop"
    /\ ~(current_pos < total_duration)
    /\ Return(chunks)
    /\ UNCHANGED << chunk_duration, overlap_duration, min_chunk_duration,
                    total_duration, chunk_index, current_pos, merged, raised, calls >>
    /\ UNCHANGED pipeline_vars
    /\ UNCHANGED << handler_vars, lambda_vars, token_vars >>

\* the short-tail branch: extend the previous chunk and break
ShortTailMerge ==
    /\ pc = "loop"
    /\ current_pos < total_duration
    /\ IsShortTail(current_pos, chunk_index)
    /\ Return(ExtendPrevious(chunks))
    /\ merged' = TRUE
    /\ UNCHANGED << chunk_duration, overlap_duration, min_chunk_duration,
                    total_duration, chunk_index, current_pos, raised, calls >>
    /\ UNCHANGED pipeline_vars
    /\ UNCHANGED << handler_vars, lambda_vars, token_vars >>

\* one iteration that extracts a chunk with ffmpeg and appends it
EmitChunk ==
    /\ pc = "loop"
    /\ current_pos < total_duration
    /\ ~IsShortTail(current_pos, chunk_index)
    /\ Len(chunks) < MaxChunks
    /\ chunks' = Append(chunks, NewChunk(current_pos, chunk_index))
    /\ current_pos' = NextPos(current_pos)
    /\ chunk_index' = chunk_index + 1
    /\ UNCHANGED << chunk_duration, overlap_duration, min_chunk_duration,
                    total_duration, pc, merged, raised, calls, snap >>
    /\ UNCHANGED pipeline_vars
    /\ UNCHANGED << handler_vars, lambda_vars, token_vars >>

\* one iteration in which ffmpeg exits non-zero (check=True raises); the
\* exception unwinds the frame, no local survives
ExtractFails ==
    /\ pc = "loop"
    /\ current_pos < total_duration
    /\ ~IsShortTail(current_pos, chunk_index)
    /\ pc' = "raised"
    /\ raised' = "CalledProcessError"
    /\ total_duration' = 0
    /\ chunks' = << >>
    /\ chunk_index' = 0
    /\ current_pos' = 0
    /\ UNCHANGED << chunk_duration, overlap_duration, min_chunk_duration,
                    merged, calls, snap >>
    /\ UNCHANGED pipeline_vars
    /\ UNCHANGED << handler_vars, lambda_vars, token_vars >>

Next ==
    \/ Call
    \/ ProbeFails
    \/ LoopExit
    \/ ShortTailMerge
    \/ EmitChunk
    \/ ExtractFails

Spec == Init /\ [][Next]_vars

\* ------------------------------------------------------------ vocabulary
\* 0 < overlap_duration < chunk_duration, min_chunk_duration > 0, total_duration > 0
ValidConfiguration ==
    /\ 0 < overlap_duration
    /\ overlap_duration < chunk_duration
    /\ min_chunk_duration > 0
    /\ total_duration > 0

Returned == pc = "returned"

\* what the planner has returned, for a valid configuration
ReturnedValid == Returned /\ ValidConfiguration

\* -------------------------------------------------------------------- C1
\* C1: in the returned list every two consecutive chunks satisfy
\* effective_end(i) = effective_start(i+1) (valid configuration).
C1_EffectiveContiguous ==
    ReturnedValid =>
        \A i \in 1..(Len(chunks) - 1) :
            chunks[i].effective_end = chunks[i + 1].effective_start

\* -------------------------------------------------------------------- C2
\* C2: for a valid configuration the returned list is not empty, its first
\* chunk has offset 0 and effective_start 0, and its last chunk has
\* effective_end = total_duration, after a normal loop end and after a merge.
C2_FirstAndLast ==
    ReturnedValid =>
        /\ Len(chunks) >= 1
        /\ chunks[1].offset = 0
        /\ chunks[1].effective_start = 0
        /\ chunks[Len(chunks)].effective_end = total_duration

\* a valid call that returned several chunks through the short-tail merge
C2_Witness ==
    /\ ReturnedValid
    /\ merged
    /\ Len(chunks) >= 2
    /\ chunks[Len(chunks)].offset + chunk_duration < total_duration

\* -------------------------------------------------------------------- C3
\* C3: for a valid configuration the effective windows leave no gap: every
\* unit cell [t, t+1] of [0, total_duration] lies in the effective window of
\* at least one returned chunk.
C3_NoGap ==
    ReturnedValid =>
        \A t \in 0..(total_duration - 1) :
            \E i \in 1..Len(chunks) :
                /\ chunks[i].effective_start <= t
                /\ t + 1 <= chunks[i].effective_end

\* a valid call that returned at least three chunks, the last one cut by the
\* end of the audio
C3_Witness ==
    /\ ReturnedValid
    /\ ~merged
    /\ Len(chunks) >= 3
    /\ chunks[Len(chunks)].effective_end < chunks[Len(chunks)].offset + chunk_duration

\* -------------------------------------------------------------------- C4
\* C4: an iteration entered with chunk_index > 0 and a remainder smaller than
\* min_chunk_duration emits nothing, sets the last emitted chunk's
\* effective_end to total_duration and stops; any other iteration emits a
\* chunk at the current position (unless the extraction itself raises).
C4_ShortTailRule ==
    [][ (pc = "loop" /\ current_pos < total_duration) =>
          IF chunk_index > 0 /\ total_duration - current_pos < min_chunk_duration
          THEN /\ pc' = "returned"
               /\ chunks # << >>
               /\ chunks' = [chunks EXCEPT ![Len(chunks)].effective_end = total_duration]
          ELSE \/ pc' = "raised"
               \/ /\ pc' = "loop"
                  /\ Len(chunks') = Len(chunks) + 1
                  /\ SubSeq(chunks', 1, Len(chunks)) = chunks
                  /\ chunks'[Len(chunks')].offset = current_pos
                  /\ chunks'[Len(chunks')].chunk_index = chunk_index ]_vars

\* the merge fired on a remainder one tick below min_chunk_duration and moved
\* the previous chunk's effective_end
C4_Witness ==
    /\ ReturnedValid
    /\ merged
    /\ chunk_index >= 1
    /\ Len(chunks) = chunk_index
    /\ total_duration - current_pos = min_chunk_duration - 1
    /\ chunks[Len(chunks)].effective_end = total_duration
    /\ chunks[Len(chunks)].effective_start + chunk_duration < total_duration

\* -------------------------------------------------------------------- C5
\* the single chunk that spans the whole recording
IsWholeRecording ==
    /\ Len(chunks) = 1
    /\ chunks[1].offset = 0
    /\ chunks[1].duration = total_duration
    /\ chunks[1].effective_start = 0
    /\ chunks[1].effective_end = total_duration

\* C5 as stated: a valid configuration and total_duration <
\* chunk_duration + overlap_duration give exactly one chunk spanning the whole
\* recording.
C5_ShortRecordingOneChunk ==
    (ReturnedValid /\ total_duration < chunk_duration + overlap_duration)
        => IsWholeRecording

\* C5 as amended: the same, for total_duration that is also smaller than
\* step + min_chunk_duration.
C5_ShortRecordingOneChunkAmended ==
    ( /\ ReturnedValid
      /\ total_duration < chunk_duration + overlap_duration
      /\ total_duration < (chunk_duration - overlap_duration) + min_chunk_duration )
        => IsWholeRecording

\* a recording longer than chunk_duration that the merge keeps in one chunk
C5_Witness ==
    /\ ReturnedValid
    /\ merged
    /\ total_duration > chunk_duration
    /\ total_duration < chunk_duration + overlap_duration
    /\ total_duration < (chunk_duration - overlap_duration) + min_chunk_duration
    /\ IsWholeRecording

\* -------------------------------------------------------------------- C6
\* ceil(a / b) for b > 0
Ceil(a, b) == -((-a) \div b)

\* C6 as stated: the chunk count is ceil((total - overlap) / step) without a
\* merge and one less with a merge.
C6_CountFormula ==
    ReturnedValid =>
        Len(chunks) = IF merged
                      THEN Ceil(total_duration - overlap_duration,
                                chunk_duration - overlap_duration) - 1
                      ELSE Ceil(total_duration - overlap_duration,
                                chunk_duration - overlap_duration)

\* C6 as amended: the chunk count is ceil(total / step) without a merge, is
\* one less than that with a merge when min_chunk_duration <= step, and is in
\* every case 1 + max(0, floor((total - min_chunk_duration) / step)); the
\* four examples of the claim hold.
C6_CountFormulaAmended ==
    ReturnedValid =>
        LET st == chunk_duration - overlap_duration
            n  == Len(chunks)
        IN  /\ ~merged => n = Ceil(total_duration, st)
            /\ (merged /\ min_chunk_duration <= st) => n = Ceil(total_duration, st) - 1
            /\ n = 1 + (IF total_duration >= min_chunk_duration
                        THEN (total_duration - min_chunk_duration) \div st
                        ELSE 0)
            /\ ( /\ chunk_duration = 480
                 /\ overlap_duration = 30
                 /\ min_chunk_duration = 60 )
                 => /\ total_duration = 600 => n = 2
                    /\ total_duration = 2400 => n = 6
                    /\ total_duration = 2520 => n = 6
                    /\ total_duration = 950 => n = 2

\* the 950 s example: the merge fired under the default configuration
C6_Witness ==
    /\ ReturnedValid
    /\ chunk_duration = CHUNK_DURATION
    /\ total_duration = 950
    /\ merged
    /\ Len(chunks) = 2

\* -------------------------------------------------------------------- C7
\* C7: a call that returns for the same total_duration (and the same
\* chunk_duration, overlap_duration and min_chunk_duration) as an earlier
\* completed call returns the same list, whatever was called in between.
C7_Deterministic ==
    (Returned /\ snap.taken /\ snap.total_duration = total_duration)
        => chunks = snap.chunks

\* the third call returned for the duration of the first, with several chunks
C7_Witness ==
    /\ Returned
    /\ snap.taken
    /\ snap.call = 1
    /\ calls = 3
    /\ snap.total_duration = total_duration
    /\ Len(chunks) >= 2

\* -------------------------------------------------------------------- C8
\* C8: with violated constraints (overlap_duration <= 0, overlap_duration >=
\* chunk_duration, min_chunk_duration <= 0 or total_duration <= 0) planning
\* emits no chunk and does not return normally.
C8_InvalidConfigurationRejected ==
    (pc \in {"loop", "returned"} /\ ~ValidConfiguration)
        => (chunks = << >> /\ pc # "returned")

\* -------------------------------------------------------------------- C9
\* C9: for a valid configuration every returned chunk satisfies
\* offset <= effective_start < effective_end <= offset + duration.
C9_EffectiveInsidePhysical ==
    ReturnedValid =>
        \A i \in 1..Len(chunks) :
            /\ chunks[i].offset <= chunks[i].effective_start
            /\ chunks[i].effective_start < chunks[i].effective_end
            /\ chunks[i].effective_end <= chunks[i].offset + chunks[i].duration

C11_StepAndOverlap ==
    ReturnedValid =>
        \A i \in 1..(Len(chunks) - 1) :
            /\ chunks[i + 1].offset =
                   chunks[i].offset + (chunk_duration - overlap_duration)
            /\ chunks[i].effective_end - chunks[i + 1].offset = overlap_duration

\* C11 as amended: offset(i+1) = offset(i) + step, and effective_end(i) -
\* offset(i+1) = min(overlap_duration, total_duration - offset(i+1)), which is
\* overlap_duration whenever min_chunk_duration >= overlap_duration.
C11_StepAndOverlapAmended ==
    pc \in {"loop", "returned"} =>
        \A i \in 1..(Len(chunks) - 1) :
            /\ chunks[i + 1].offset =
                   chunks[i].offset + (chunk_duration - overlap_duration)
            /\ chunks[i].effective_end - chunks[i + 1].offset =
                   IF overlap_duration < total_duration - chunks[i + 1].offset
                   THEN overlap_duration
                   ELSE total_duration - chunks[i + 1].offset
            /\ (ValidConfiguration /\ min_chunk_duration >= overlap_duration)
                   => chunks[i].effective_end - chunks[i + 1].offset = overlap_duration

\* the 1200 s test: three chunks, each overlapping the next by 30 s
C11_Witness ==
    /\ ReturnedValid
    /\ chunk_duration = CHUNK_DURATION
    /\ total_duration = 1200
    /\ Len(chunks) = 3
    /\ chunks[2].offset = 450
    /\ chunks[1].effective_end - chunks[2].offset = 30

\* ================================================================ diarizer
\* src/lambdas/diarize/lambda_function.py, chunk mode.  One tick of a turn's
\* local_start / local_end is a quarter of a second.

MaxTurns == 2            \* most turns pyannote reports in a drawn chunk

\* if seg_duration < 0.5: two quarter seconds
MinTurnTicks == 2

Speakers == {"SPEAKER_00", "SPEAKER_01"}

\* what embedding_model.crop yields on a span
Vectors == { << 1, 0 >>, << 0, 1 >> }

\* crop raises, or yields an empty array, or yields a vector
CropOutcomes ==
    { [ raises |-> TRUE, embedding |-> << >> ], [ raises |-> FALSE, embedding |-> << >> ] }
        \cup { [ raises |-> FALSE, embedding |-> v ] : v \in Vectors }

RECURSIVE SeqSum(_)
SeqSum(seq) == IF seq = << >> THEN 0 ELSE Head(seq) + SeqSum(Tail(seq))

\* seg_duration = seg["local_end"] - seg["local_start"]
seg_duration(seg) == seg.local_end - seg.local_start

TooShortInclusive(seg) == seg_duration(seg) <= MinTurnTicks

\* if seg_duration < 0.5: continue
TooShort(seg) == seg_duration(seg) < MinTurnTicks

\* try: embedding = crop(...); if embedding is not None and len(embedding) > 0
\* except Exception: continue
CropUsable(seg) == ~seg.crop.raises /\ Len(seg.crop.embedding) > 0

\* speaker_segments[speaker], in input order
speaker_segments(segs, speaker) ==
    SelectSeq(segs, LAMBDA seg : seg.local_speaker = speaker)

\* the labels that occur in the turns
labels(segs) == { segs[i].local_speaker : i \in DOMAIN segs }

usedUntilFailure(segs) ==
    LET bad   == { i \in DOMAIN segs : ~TooShort(segs[i]) /\ segs[i].crop.raises }
        first == IF bad = {} THEN Len(segs) + 1
                 ELSE CHOOSE i \in bad : \A j \in bad : i <= j
    IN  SelectSeq(SubSeq(segs, 1, first - 1),
                  LAMBDA seg : ~TooShort(seg) /\ CropUsable(seg))

\* the turns of one speaker whose embedding and duration are appended
used(segs) == SelectSeq(segs, LAMBDA seg : ~TooShort(seg) /\ CropUsable(seg))

UniformWeight(us, i) == 1

\* weights = durations / durations.sum(): the numerator of weight i
WeightOf(us, i) == seg_duration(us[i])

\* np.sum(embeddings * weights[:, np.newaxis], axis=0) as an exact fraction
weighted_embedding(us) ==
    [ num |-> [ k \in DOMAIN us[1].crop.embedding |->
                  SeqSum([ i \in DOMAIN us |-> WeightOf(us, i) * us[i].crop.embedding[k] ]) ],
      den |-> SeqSum([ i \in DOMAIN us |-> WeightOf(us, i) ]) ]

\* result[speaker] = {embedding, total_duration, segment_count}
speaker_entry(segs) ==
    [ embedding      |-> IF used(segs) = << >> THEN [ num |-> << >>, den |-> 0 ]
                         ELSE weighted_embedding(used(segs)),
      total_duration |-> SeqSum([ i \in DOMAIN used(segs) |-> seg_duration(used(segs)[i]) ]),
      segment_count  |-> Len(segs) ]

AllSpeakers(segs) == labels(segs)

\* if embeddings: the speakers that get an entry
EmbeddedSpeakers(segs) ==
    { speaker \in labels(segs) : used(speaker_segments(segs, speaker)) # << >> }

extract_speaker_embeddings(segs) ==
    [ speaker \in EmbeddedSpeakers(segs) |->
        speaker_entry(speaker_segments(segs, speaker)) ]

\* the segments list built from itertracks: the turn without the crop outcome
segment_json(seg) ==
    [ local_start |-> seg.local_start, local_end |-> seg.local_end,
      local_speaker |-> seg.local_speaker ]

\* a mutant of uploaded: del chunk["local_path"] is forgotten
uploaded_keeps_path(chunk) ==
    [ chunk_index |-> chunk.chunk_index, chunk_key |-> << "chunks", chunk.local_path >>,
      local_path |-> chunk.local_path,
      offset |-> chunk.offset, duration |-> chunk.duration,
      effective_start |-> chunk.effective_start, effective_end |-> chunk.effective_end ]

\* chunk_audio.lambda_handler: chunk_key replaces local_path in the response
uploaded(chunk) ==
    [ chunk_index |-> chunk.chunk_index, chunk_key |-> << "chunks", chunk.local_path >>,
      offset |-> chunk.offset, duration |-> chunk.duration,
      effective_start |-> chunk.effective_start, effective_end |-> chunk.effective_end ]

\* a mutant of result_key: one result object name for every chunk
result_key_shared(chunk) == << "diarization", output_path(0) >>

\* result_key = f"diarization/{base_name}_result.json"
result_key(chunk) == << "diarization", chunk.chunk_key[2] >>

\* detailed_result of handle_chunk_input
detailed_result(chunk, segs) ==
    [ chunk_index     |-> chunk.chunk_index,
      offset          |-> chunk.offset,
      effective_start |-> chunk.effective_start,
      effective_end   |-> chunk.effective_end,
      segments        |-> [ i \in DOMAIN segs |-> segment_json(segs[i]) ],
      speakers        |-> IF segs # << >> THEN extract_speaker_embeddings(segs)
                          ELSE << >>,
      speaker_count   |-> Cardinality(labels(segs)) ]

\* s3.put_object: the object under the key is replaced
put_object(store, key, body) ==
    { o \in store : o.key # key } \cup { [ key |-> key, body |-> body ] }

\* there is an object under the key
has_object(store, key) == \E o \in store : o.key = key

\* the body stored under a key
get_object(store, key) == (CHOOSE o \in store : o.key = key).body

\* handle_chunk_input runs to its return for chunk number i of the plan
HandleChunkInput(i) ==
    /\ dstate[i] \in {"pending", "raised", "stored"}
    /\ s3' = put_object(s3, result_key(plan[i]), detailed_result(plan[i], turns[i]))
    /\ dstate' = [ dstate EXCEPT ![i] = "stored" ]
    /\ UNCHANGED << plan, turns, astate, aevent, aresponse >>
    /\ UNCHANGED planner_vars
    /\ UNCHANGED << handler_vars, lambda_vars, token_vars >>

\* handle_chunk_input raises before put_object (download, soundfile, the
\* pyannote pipeline or the embedding model fails): nothing is stored
HandleChunkInputRaises(i) ==
    /\ dstate[i] = "pending"
    /\ dstate' = [ dstate EXCEPT ![i] = "raised" ]
    /\ UNCHANGED << plan, turns, s3, astate, aevent, aresponse >>
    /\ UNCHANGED planner_vars
    /\ UNCHANGED << handler_vars, lambda_vars, token_vars >>

\* ============================================================== aggregator
\* src/lambdas/aggregate_results/lambda_function.py

\* chunk number i of the plan has a stored result
is_stored(store, i) == has_object(store, result_key(plan[i]))

\* the stored result of chunk number i of the plan
stored_result(store, i) == get_object(store, result_key(plan[i]))

\* One transcription result per stored turn.  split_by_speaker and transcribe
\* copy speaker, start and end of a segment unchanged and add the recognised
\* text; the text of turn k of chunk c is the token << c, k >>.
transcription_result(result, k) ==
    [ speaker |-> result.segments[k].local_speaker,
      start   |-> result.segments[k].local_start,
      end     |-> result.segments[k].local_end,
      text    |-> << result.chunk_index, k >> ]

\* the results of the chunks stored so far, in chunk order
RECURSIVE transcription_results(_, _)
transcription_results(store, i) ==
    IF i > Len(plan) THEN << >>
    ELSE LET result == stored_result(store, i)
         IN  (IF ~is_stored(store, i) THEN << >>
              ELSE [ k \in DOMAIN result.segments |-> transcription_result(result, k) ])
             \o transcription_results(store, i + 1)

unsorted(results) == results

\* insertion of x after every element whose key is <= its own
RECURSIVE insert_sorted(_, _)
insert_sorted(done, x) ==
    IF done = << >> THEN << x >>
    ELSE IF Head(done).start <= x.start
         THEN << Head(done) >> \o insert_sorted(Tail(done), x)
         ELSE << x >> \o done

\* sorted(transcription_results, key=lambda x: x["start"]): a stable sort
RECURSIVE sorted(_)
sorted(results) ==
    IF results = << >> THEN << >>
    ELSE insert_sorted(sorted(SubSeq(results, 1, Len(results) - 1)),
                       results[Len(results)])

\* transcript_key = f"transcripts/{base_key}_transcript.json"
transcript_key == << "transcripts", "recording" >>

\* lambda_handler runs to its return on the results available now
AggregateResults ==
    /\ astate = "idle"
    /\ aevent' = transcription_results(s3, 1)
    /\ s3' = put_object(s3, transcript_key, sorted(aevent'))
    /\ aresponse' = [ transcript_key |-> transcript_key,
                      segment_count  |-> Len(sorted(aevent')) ]
    /\ astate' = "written"
    /\ UNCHANGED << plan, turns, dstate >>
    /\ UNCHANGED planner_vars
    /\ UNCHANGED << handler_vars, lambda_vars, token_vars >>

\* lambda_handler raises: the event lacks "bucket" or "transcription_results"
\* (KeyError), or put_object fails; nothing is written
AggregateResultsRaises ==
    /\ astate = "idle"
    /\ astate' = "raised"
    /\ UNCHANGED << plan, turns, s3, dstate, aevent, aresponse >>
    /\ UNCHANGED planner_vars
    /\ UNCHANGED << handler_vars, lambda_vars, token_vars >>

\* ================================================================ pipeline
\* The recording is planned, every chunk is handed to the diarizer, the
\* aggregator assembles the transcript.

\* the locals of split_audio_to_chunks when it returns, started at pos
RECURSIVE PlanFrom(_, _, _)
PlanFrom(pos, index, cs) ==
    IF ~(pos < total_duration)
    THEN [ chunks |-> cs, chunk_index |-> index, current_pos |-> pos, merged |-> FALSE ]
    ELSE IF IsShortTail(pos, index)
         THEN [ chunks |-> ExtendPrevious(cs), chunk_index |-> index,
                current_pos |-> pos, merged |-> TRUE ]
         ELSE PlanFrom(NextPos(pos), index + 1, Append(cs, NewChunk(pos, index)))

\* recordings of one chunk and of two chunks under the default configuration
PipelineDurations == {120, 600}

\* a turn below, at or above the 0.5 s threshold, its speaker, what crop does
TurnChoices ==
    { c \in [ len : (MinTurnTicks - 1)..(MinTurnTicks + 1),
              local_speaker : Speakers, crop : CropOutcomes ] :
        c.len < MinTurnTicks => c.crop = [ raises |-> FALSE, embedding |-> << 1, 0 >> ] }

\* turn number k of a chunk starts one second after turn k - 1 started
turn_at(k, c) ==
    [ local_start |-> 4 * (k - 1), local_end |-> 4 * (k - 1) + c.len,
      local_speaker |-> c.local_speaker, crop |-> c.crop ]

\* up to MaxTurns turns
DrawnTurnLists ==
    UNION { { [ k \in 1..n |-> turn_at(k, f[k]) ] : f \in [ 1..n -> TurnChoices ] }
            : n \in 0..MaxTurns }

\* one speaker with a turn of 2 s and a turn of 8 s, distinct vectors
ExampleTurnLists ==
    { << [ local_start |-> 0, local_end |-> IF first THEN 8 ELSE 32,
           local_speaker |-> "SPEAKER_00", crop |-> [ raises |-> FALSE, embedding |-> v ] ],
         [ local_start |-> IF first THEN 8 ELSE 32, local_end |-> 40,
           local_speaker |-> "SPEAKER_00", crop |-> [ raises |-> FALSE, embedding |-> w ] ] >>
      : << v, w, first >> \in { x \in Vectors \X Vectors \X BOOLEAN : x[1] # x[2] } }

\* two stretches of speech near the seam of a 600 s recording, in quarter
\* seconds of the recording: 460 s..470 s lies in the overlap of chunks 0
\* and 1, 500 s..505 s lies in both chunks' audio as well
SeamSpeech == << [ start |-> 1840, end |-> 1880 ], [ start |-> 2000, end |-> 2020 ] >>

\* each stretch gets a chunk-local label and a vector
SeamChoices == [ DOMAIN SeamSpeech -> Speakers \X Vectors ]

\* the turns a chunk hears of the seam speech, on the chunk's own clock
heard(chunk, g) ==
    [ k \in DOMAIN SeamSpeech |->
        [ local_start   |-> SeamSpeech[k].start - 4 * chunk.offset,
          local_end     |-> SeamSpeech[k].end - 4 * chunk.offset,
          local_speaker |-> g[k][1],
          crop          |-> [ raises |-> FALSE, embedding |-> g[k][2] ] ] ]

InitPipeline ==
    /\ chunk_duration = CHUNK_DURATION
    /\ overlap_duration = OVERLAP_DURATION
    /\ min_chunk_duration = MIN_CHUNK_DURATION
    /\ total_duration \in PipelineDurations
    /\ chunks = PlanFrom(0, 0, << >>).chunks
    /\ chunk_index = PlanFrom(0, 0, << >>).chunk_index
    /\ current_pos = PlanFrom(0, 0, << >>).current_pos
    /\ merged = PlanFrom(0, 0, << >>).merged
    /\ pc = "returned"
    /\ raised = "none"
    /\ calls = 1
    /\ snap = NoSnap
    /\ plan = [ i \in DOMAIN chunks |-> uploaded(chunks[i]) ]
    /\ turns \in IF Len(chunks) = 1
                 THEN [ {1} -> DrawnTurnLists \cup ExampleTurnLists ]
                 ELSE { [ i \in DOMAIN chunks |-> heard(chunks[i], g[i]) ]
                        : g \in [ DOMAIN chunks -> SeamChoices ] }
    /\ s3 = {}
    /\ dstate = [ i \in DOMAIN chunks |-> "pending" ]
    /\ astate = "idle"
    /\ aevent = "none"
    /\ aresponse = "none"
    /\ HandlerOff
    /\ LambdaOff
    /\ TokenOff

NextPipeline ==
    \/ \E i \in DOMAIN plan : HandleChunkInput(i)
    \/ \E i \in DOMAIN plan : HandleChunkInputRaises(i)
    \/ AggregateResults
    \/ AggregateResultsRaises

SpecPipeline == InitPipeline /\ [][NextPipeline]_vars

\* the plan the pipeline starts from is the one the planner's loop returns
PlanFromIsThePlan ==
    ReturnedValid =>
        /\ chunks = PlanFrom(0, 0, << >>).chunks
        /\ chunk_index = PlanFrom(0, 0, << >>).chunk_index
        /\ current_pos = PlanFrom(0, 0, << >>).current_pos
        /\ merged = PlanFrom(0, 0, << >>).merged

\* ------------------------------------------------- vocabulary, diarizer
\* chunk number i of the plan has its diarization result in the bucket
Stored(i) == dstate[i] = "stored"

\* the label -> entry mapping stored for chunk number i
speakers_of(i) == stored_result(s3, i).speakers

TurnLength(turn) == turn.local_end - turn.local_start

\* crop returned a non-empty vector on the turn's span
Succeeds(turn) == ~turn.crop.raises /\ turn.crop.embedding # << >>

\* the turns of a label that are long enough and whose extraction succeeds
UsableTurns(i, label) ==
    { k \in DOMAIN turns[i] :
        /\ turns[i][k].local_speaker = label
        /\ TurnLength(turns[i][k]) >= MinTurnTicks
        /\ Succeeds(turns[i][k]) }

\* the sum of f over the finite set S
RECURSIVE SumOver(_, _)
SumOver(S, f) ==
    IF S = {} THEN 0
    ELSE LET x == CHOOSE y \in S : TRUE IN f[x] + SumOver(S \ {x}, f)

\* ------------------------------------------------------------------- C12
\* C12: a turn is used for its speaker's embedding iff it lasts at least
\* 0.5 s and its extraction succeeds with a non-empty vector: the entry's
\* total_duration, and the sum the weights are normalised by, are the summed
\* lengths of exactly those turns (a turn of exactly 0.5 s counts, a shorter
\* one never does).
C12_UsedTurns ==
    \A i \in DOMAIN plan :
        Stored(i) =>
            \A label \in DOMAIN speakers_of(i) :
                LET total == SumOver(UsableTurns(i, label),
                                     [ k \in DOMAIN turns[i] |-> TurnLength(turns[i][k]) ])
                IN  /\ speakers_of(i)[label].total_duration = total
                    /\ speakers_of(i)[label].embedding.den = total

\* a speaker with a turn of exactly 0.5 s that is used and a shorter turn
\* that is not
C12_Witness ==
    \E i \in DOMAIN plan :
        /\ Stored(i)
        /\ \E k, j \in DOMAIN turns[i] :
            /\ turns[i][k].local_speaker = turns[i][j].local_speaker
            /\ TurnLength(turns[i][k]) = MinTurnTicks
            /\ Succeeds(turns[i][k])
            /\ TurnLength(turns[i][j]) < MinTurnTicks
            /\ Succeeds(turns[i][j])
            /\ turns[i][k].local_speaker \in DOMAIN speakers_of(i)
            /\ speakers_of(i)[turns[i][k].local_speaker].total_duration = MinTurnTicks

\* ------------------------------------------------------------------- C13
\* an entry without its segment_count
WithoutCount(entries) ==
    [ label \in DOMAIN entries |->
        [ embedding      |-> entries[label].embedding,
          total_duration |-> entries[label].total_duration ] ]

\* the turns without turn number k
WithoutTurn(segs, k) == SubSeq(segs, 1, k - 1) \o SubSeq(segs, k + 1, Len(segs))

\* C13: a turn whose extraction raises is isolated: the chunk is still
\* stored, and apart from segment_count the stored entries are those of the
\* same turns with the failing turn taken out.
C13_FailureIsolated ==
    \A i \in DOMAIN plan :
        Stored(i) =>
            \A k \in DOMAIN turns[i] :
                turns[i][k].crop.raises =>
                    WithoutCount(speakers_of(i)) =
                        WithoutCount(extract_speaker_embeddings(WithoutTurn(turns[i], k)))

\* a long enough turn raises, a later turn of the same speaker is used
C13_Witness ==
    \E i \in DOMAIN plan :
        /\ Stored(i)
        /\ \E k, j \in DOMAIN turns[i] :
            /\ k < j
            /\ turns[i][k].local_speaker = turns[i][j].local_speaker
            /\ TurnLength(turns[i][k]) >= MinTurnTicks
            /\ turns[i][k].crop.raises
            /\ j \in UsableTurns(i, turns[i][j].local_speaker)
            /\ turns[i][j].local_speaker \in DOMAIN speakers_of(i)
            /\ speakers_of(i)[turns[i][j].local_speaker].segment_count = 2

\* ------------------------------------------------------------------- C14
\* C14: the stored mapping has a key for a label iff the label has a usable
\* turn; the keys are labels of the input turns and are no more than the
\* chunk's speaker_count.
C14_KeysAreUsableLabels ==
    \A i \in DOMAIN plan :
        Stored(i) =>
            LET all == { turns[i][k].local_speaker : k \in DOMAIN turns[i] }
            IN  /\ DOMAIN speakers_of(i) = { label \in all : UsableTurns(i, label) # {} }
                /\ DOMAIN speakers_of(i) \subseteq all
                /\ Cardinality(DOMAIN speakers_of(i)) <= stored_result(s3, i).speaker_count

\* two labels in the chunk, one of them without a usable turn
C14_Witness ==
    \E i \in DOMAIN plan :
        /\ Stored(i)
        /\ stored_result(s3, i).speaker_count = 2
        /\ Cardinality(DOMAIN speakers_of(i)) = 1
        /\ \E k \in DOMAIN turns[i] :
            /\ turns[i][k].local_speaker \notin DOMAIN speakers_of(i)
            /\ TurnLength(turns[i][k]) >= MinTurnTicks
            /\ ~Succeeds(turns[i][k])

\* ------------------------------------------------------------------- C15
\* the squared distance from the fraction e to the vector v, times e.den^2
Dist2(e, v) ==
    SumOver(DOMAIN v, [ c \in DOMAIN v |-> (e.num[c] - e.den * v[c]) * (e.num[c] - e.den * v[c]) ])

\* C15: the stored vector is the sum over the kept turns of
\* (d_i / sum_j d_j) * v_i; with two kept turns of different lengths and
\* distinct vectors (2 s and 8 s among them) it is strictly closer to the
\* longer turn's vector.
C15_WeightedMean ==
    \A i \in DOMAIN plan :
        Stored(i) =>
            \A label \in DOMAIN speakers_of(i) :
                LET kept == UsableTurns(i, label)
                    e    == speakers_of(i)[label].embedding
                    d    == [ k \in DOMAIN turns[i] |-> TurnLength(turns[i][k]) ]
                    v    == [ k \in DOMAIN turns[i] |-> turns[i][k].crop.embedding ]
                IN  /\ e.den > 0
                    /\ \A c \in DOMAIN e.num :
                          e.num[c] * SumOver(kept, d) =
                              e.den * SumOver(kept, [ k \in DOMAIN turns[i] |->
                                                        IF k \in kept THEN d[k] * v[k][c] ELSE 0 ])
                    /\ \A a, b \in kept :
                          (kept = {a, b} /\ d[a] < d[b] /\ v[a] # v[b])
                              => Dist2(e, v[b]) < Dist2(e, v[a])

\* the 2 s turn and the 8 s turn of one speaker, distinct vectors
C15_Witness ==
    \E i \in DOMAIN plan :
        /\ Stored(i)
        /\ \E a, b \in DOMAIN turns[i] :
            /\ TurnLength(turns[i][a]) = 8
            /\ TurnLength(turns[i][b]) = 32
            /\ turns[i][a].crop.embedding # turns[i][b].crop.embedding
            /\ UsableTurns(i, turns[i][a].local_speaker) = {a, b}
            /\ Dist2(speakers_of(i)[turns[i][a].local_speaker].embedding,
                     turns[i][b].crop.embedding)
                 < Dist2(speakers_of(i)[turns[i][a].local_speaker].embedding,
                         turns[i][a].crop.embedding)

\* ----------------------------------------------- vocabulary, transcript
Written == astate = "written"

\* the transcript in the bucket
transcript == get_object(s3, transcript_key)

Max(a, b) == IF a > b THEN a ELSE b

\* the chunk and the turn an entry of the transcript was recognised from
ChunkOf(entry) == plan[entry.text[1] + 1]
TurnOf(entry) == turns[entry.text[1] + 1][entry.text[2]]

\* where the entry's turn lies in the recording, in quarter seconds:
\* shifted by the chunk's offset and clipped to its effective window
GlobalStart(entry) ==
    Max(4 * ChunkOf(entry).offset + TurnOf(entry).local_start,
        4 * ChunkOf(entry).effective_start)
GlobalEnd(entry) ==
    Min(4 * ChunkOf(entry).offset + TurnOf(entry).local_end,
        4 * ChunkOf(entry).effective_end)

\* two stretches of time have more than a point in common
Overlap(s1, e1, s2, e2) == s1 < e2 /\ s2 < e1

\* ------------------------------------------------------------------- C16
\* C16: every entry of the final transcript is its turn shifted by the
\* chunk's offset and clipped to the chunk's effective window (turns that
\* fall outside are dropped), no two entries overlap in time, and no
\* stretch of the recording is emitted from two chunks.
C16_ShiftedClippedDisjoint ==
    Written =>
        /\ \A n \in DOMAIN transcript :
            /\ transcript[n].start = GlobalStart(transcript[n])
            /\ transcript[n].end = GlobalEnd(transcript[n])
            /\ transcript[n].start < transcript[n].end
        /\ \A m, n \in DOMAIN transcript :
            m # n => ~Overlap(transcript[m].start, transcript[m].end,
                              transcript[n].start, transcript[n].end)
        /\ \A m, n \in DOMAIN transcript :
            ChunkOf(transcript[m]) # ChunkOf(transcript[n])
                => ~Overlap(GlobalStart(transcript[m]), GlobalEnd(transcript[m]),
                            GlobalStart(transcript[n]), GlobalEnd(transcript[n]))

\* ------------------------------------------------------------------- C17
\* the speaker ids the transcript gives to the turns of a chunk-local label
IdsOf(chunk, label) ==
    { transcript[n].speaker : n \in { m \in DOMAIN transcript :
        /\ ChunkOf(transcript[m]) = chunk
        /\ TurnOf(transcript[m]).local_speaker = label } }

Dot(v, w) == SumOver(DOMAIN v, [ c \in DOMAIN v |-> v[c] * w[c] ])

\* cosine similarity 1 and cosine similarity 0 of two stored embeddings
SameDirection(e1, e2) ==
    /\ Dot(e1.num, e2.num) > 0
    /\ Dot(e1.num, e2.num) * Dot(e1.num, e2.num) = Dot(e1.num, e1.num) * Dot(e2.num, e2.num)
Orthogonal(e1, e2) == Dot(e1.num, e2.num) = 0

\* chunk number i had its result in the bucket when the aggregator ran and
\* has turns in the transcript
InTranscript(i) ==
    /\ is_stored(s3, i)
    /\ \E n \in DOMAIN transcript : ChunkOf(transcript[n]) = plan[i]

\* C17: chunk 0 has one embedded speaker G, which founds the registry; a
\* speaker P that is the only embedded speaker of chunk 1 gets G's global
\* id when its embedding has cosine similarity 1 with G's (at or above any
\* threshold) and another id when the similarity is 0 (below any threshold).
C17_CrossChunkMatching ==
    (Written /\ Len(plan) >= 2 /\ InTranscript(1) /\ InTranscript(2)) =>
        \A G \in DOMAIN speakers_of(1), P \in DOMAIN speakers_of(2) :
            (DOMAIN speakers_of(1) = {G} /\ DOMAIN speakers_of(2) = {P}) =>
                /\ SameDirection(speakers_of(1)[G].embedding, speakers_of(2)[P].embedding)
                       => IdsOf(plan[2], P) = IdsOf(plan[1], G)
                /\ Orthogonal(speakers_of(1)[G].embedding, speakers_of(2)[P].embedding)
                       => IdsOf(plan[2], P) \cap IdsOf(plan[1], G) = {}

\* ------------------------------------------------------------------- C18
\* C18: two labels P, Q of one chunk never share a global id; when chunk 0
\* founded the registry with one speaker G (so both best-match G) and P's
\* similarity with G is 1 while Q's is lower, P gets G's id and Q another.
C18_OneLocalLabelPerGlobalId ==
    (Written /\ Len(plan) >= 2 /\ InTranscript(1) /\ InTranscript(2)) =>
        \A P, Q \in DOMAIN speakers_of(2) :
            P # Q =>
                /\ IdsOf(plan[2], P) \cap IdsOf(plan[2], Q) = {}
                /\ \A G \in DOMAIN speakers_of(1) :
                    ( /\ DOMAIN speakers_of(1) = {G}
                      /\ SameDirection(speakers_of(1)[G].embedding, speakers_of(2)[P].embedding)
                      /\ ~SameDirection(speakers_of(1)[G].embedding, speakers_of(2)[Q].embedding) )
                        => /\ IdsOf(plan[2], P) = IdsOf(plan[1], G)
                           /\ IdsOf(plan[2], Q) \cap IdsOf(plan[1], G) = {}

\* ------------------------------------------------------------------- C19
\* C19: the aggregator writes a transcript only when every planned chunk
\* has its result; when one is missing the run fails and no transcript is
\* written.
C19_NoPartialTranscript ==
    [][ astate = "idle" /\ astate' # "idle"
          => /\ has_object(s3', transcript_key) => \A i \in DOMAIN plan : is_stored(s3, i)
             /\ (\E i \in DOMAIN plan : ~is_stored(s3, i))
                    => astate' = "raised" /\ ~has_object(s3', transcript_key) ]_vars

\* ------------------------------------------------------------------- C20
\* how often x occurs in the sequence
Count(seq, x) == Cardinality({ n \in DOMAIN seq : seq[n] = x })

\* C20: the transcript written is a permutation of the input
\* transcription_results, in non-decreasing order of start, and segment_count
\* is the number of input results.
C20_SortedPermutation ==
    Written =>
        /\ Len(transcript) = Len(aevent)
        /\ \A n \in DOMAIN aevent : Count(transcript, aevent[n]) = Count(aevent, aevent[n])
        /\ \A n \in DOMAIN transcript : Count(aevent, transcript[n]) = Count(transcript, transcript[n])
        /\ \A n \in 1..(Len(transcript) - 1) : transcript[n].start <= transcript[n + 1].start
        /\ aresponse.segment_count = Len(aevent)
        /\ aresponse.transcript_key = transcript_key

\* the input arrives out of order, with two results of equal start, and is
\* written in order
C20_Witness ==
    /\ Written
    /\ Len(aevent) >= 4
    /\ \E m, n \in DOMAIN aevent : m < n /\ aevent[m].start > aevent[n].start
    /\ transcript # aevent
    /\ transcript[1].start < transcript[Len(transcript)].start
    /\ aresponse.segment_count = 4

\* ------------------------------------------------------------------- C24
\* C24: when more than one chunk is returned, every chunk with
\* chunk_index >= 1 has a physical duration of at least min_chunk_duration
\* (valid configuration).
C24_LaterChunksLongEnough ==
    (ReturnedValid /\ Len(chunks) > 1) =>
        \A i \in 2..Len(chunks) : chunks[i].duration >= min_chunk_duration

\* C24 amended: the same when min_chunk_duration <= chunk_duration +
\* overlap_duration, the length of a full physical slice.
C24_LaterChunksLongEnoughAmended ==
    (ReturnedValid /\ Len(chunks) > 1
       /\ min_chunk_duration <= chunk_duration + overlap_duration) =>
        \A i \in 2..Len(chunks) : chunks[i].duration >= min_chunk_duration

\* 950 s under the defaults: the 50 s tail is merged, the final chunk lasts 500 s
C24_Witness ==
    /\ ReturnedValid
    /\ chunk_duration = CHUNK_DURATION
    /\ total_duration = 950
    /\ merged
    /\ Len(chunks) = 2
    /\ chunks[2].duration = 500
    /\ chunks[2].duration >= min_chunk_duration

\* ------------------------------------------------------------------- C25
\* C25: for consecutive chunks i, i+1 where the physical slice of chunk i is
\* not cut by the end of the audio, the slices overlap by exactly
\* overlap_duration: (offset(i) + duration(i)) - offset(i+1) = overlap_duration.
C25_PhysicalOverlap ==
    ReturnedValid =>
        \A i \in 1..(Len(chunks) - 1) :
            chunks[i].offset + chunk_duration + overlap_duration <= total_duration
                => (chunks[i].offset + chunks[i].duration) - chunks[i + 1].offset
                       = overlap_duration

\* C25 amended: they overlap by twice overlap_duration, a slice being
\* chunk_duration + overlap_duration long and the step chunk_duration -
\* overlap_duration; a slice cut by the end of the audio overlaps the next
\* one by all of the next one's audio.
C25_PhysicalOverlapAmended ==
    ReturnedValid =>
        \A i \in 1..(Len(chunks) - 1) :
            (chunks[i].offset + chunks[i].duration) - chunks[i + 1].offset =
                IF chunks[i].offset + chunk_duration + overlap_duration <= total_duration
                THEN 2 * overlap_duration
                ELSE total_duration - chunks[i + 1].offset

\* 1200 s under the defaults: chunk 0 is 0..510, chunk 1 starts at 450
C25_Witness ==
    /\ ReturnedValid
    /\ chunk_duration = CHUNK_DURATION
    /\ total_duration = 1200
    /\ Len(chunks) = 3
    /\ chunks[1].offset + chunks[1].duration = 510
    /\ chunks[2].offset = 450
    /\ (chunks[1].offset + chunks[1].duration) - chunks[2].offset = 2 * overlap_duration

\* ------------------------------------------------------------------- C26
\* The loop of one call runs to its end: an iteration that can be taken is
\* taken (the function is sequential code).
SpecTerminates ==
    Spec /\ WF_vars(LoopExit \/ ShortTailMerge \/ EmitChunk \/ ExtractFails)

\* total_duration > 0 and 0 <= overlap_duration < chunk_duration
LoopConfiguration ==
    /\ total_duration > 0
    /\ 0 <= overlap_duration
    /\ overlap_duration < chunk_duration

\* the iterations of the loop performed so far in this call
Iterations == chunk_index + (IF merged THEN 1 ELSE 0)

\* C26: with total_duration > 0 and 0 <= overlap_duration < chunk_duration
\* the loop performs at most ceil(total_duration / step) iterations, an
\* iteration that completes either appends one chunk and advances the
\* position by step or is the short-tail merge and ends the loop, and the
\* loop is left.
C26_LoopTerminates ==
    /\ [](LoopConfiguration /\ pc \in {"loop", "returned"}
            => Iterations <= Ceil(total_duration, chunk_duration - overlap_duration))
    /\ [][ (LoopConfiguration /\ pc = "loop" /\ pc' # "raised") =>
             \/ /\ pc' = "loop"
                /\ Len(chunks') = Len(chunks) + 1
                /\ SubSeq(chunks', 1, Len(chunks)) = chunks
                /\ current_pos' = current_pos + (chunk_duration - overlap_duration)
                /\ Iterations' = Iterations + 1
             \/ /\ pc' = "returned"
                /\ current_pos < total_duration
                /\ Len(chunks') = Len(chunks)
                /\ Iterations' = Iterations + 1
             \/ /\ pc' = "returned"
                /\ current_pos >= total_duration
                /\ chunks' = chunks
                /\ Iterations' = Iterations ]_vars
    /\ ((LoopConfiguration /\ pc = "loop") ~> (pc # "loop"))

\* 1200 s under the defaults: ceil(1200 / 450) = 3 iterations, the bound
C26_Witness ==
    /\ Returned
    /\ LoopConfiguration
    /\ chunk_duration = CHUNK_DURATION
    /\ total_duration = 1200
    /\ Iterations = 3
    /\ Iterations = Ceil(total_duration, chunk_duration - overlap_duration)

\* ============================================== chunk_audio.lambda_handler
\* src/lambdas/chunk_audio/lambda_function.py, lambda_handler.  The split
\* step is split_audio_to_chunks itself, run by the planner's actions.

EventHasBucket(event) == event.bucket

\* bucket = event["bucket"]; audio_key = event["audio_key"]
EventComplete(event) == event.bucket /\ event.audio_key

keep_audio(exists) == exists

\* if os.path.exists(local_audio): os.remove(local_audio)
remove_audio(exists) == FALSE

keep_all(dir) == dir

\* for f in os.listdir(chunk_dir): os.remove(os.path.join(chunk_dir, f))
remove_all(dir) == {}

\* the finally block
cleaned(files) ==
    [ audio |-> remove_audio(files.audio), chunks |-> remove_all(files.chunks) ]

\* an exception leaves the try block: the finally block runs, the exception
\* reaches the caller
HandlerRaises(error, files) ==
    /\ hpc' = "raised"
    /\ tmp' = cleaned(files)
    /\ hresult' = [ kind |-> "raised", error |-> error ]

\* event["bucket"] or event["audio_key"] raises KeyError, before the try block
HandlerMissingKey ==
    /\ hpc = "start"
    /\ ~EventComplete(hevent)
    /\ hpc' = "raised"
    /\ hresult' = [ kind |-> "raised", error |-> "KeyError" ]
    /\ UNCHANGED << hevent, tmp, hlocals, hs3 >>
    /\ UNCHANGED << planner_vars, pipeline_vars, lambda_vars, token_vars >>

\* os.makedirs and s3.download_file succeed
HandlerDownload ==
    /\ hpc = "start"
    /\ EventComplete(hevent)
    /\ hpc' = "probe"
    /\ tmp' = [ tmp EXCEPT !.audio = TRUE ]
    /\ hlocals' = [ hlocals EXCEPT !.downloads = @ + 1 ]
    /\ UNCHANGED << hevent, hs3, hresult >>
    /\ UNCHANGED << planner_vars, pipeline_vars, lambda_vars, token_vars >>

\* s3.download_file raises; it may have left a partial /tmp/audio.wav
HandlerDownloadFails ==
    /\ hpc = "start"
    /\ EventComplete(hevent)
    /\ hlocals' = [ hlocals EXCEPT !.downloads = @ + 1 ]
    /\ \E partial \in BOOLEAN :
          HandlerRaises("ClientError", [ tmp EXCEPT !.audio = @ \/ partial ])
    /\ UNCHANGED << hevent, hs3 >>
    /\ UNCHANGED << planner_vars, pipeline_vars, lambda_vars, token_vars >>

\* audio_duration = get_audio_duration(local_audio)
HandlerProbe ==
    /\ hpc = "probe"
    /\ \E d \in Durations : hlocals' = [ hlocals EXCEPT !.audio_duration = d ]
    /\ hpc' = "split"
    /\ UNCHANGED << hevent, tmp, hs3, hresult >>
    /\ UNCHANGED << planner_vars, pipeline_vars, lambda_vars, token_vars >>

\* get_audio_duration raises in the handler
HandlerProbeFails ==
    /\ hpc = "probe"
    /\ HandlerRaises("ProbeError", tmp)
    /\ UNCHANGED << hevent, hlocals, hs3 >>
    /\ UNCHANGED << planner_vars, pipeline_vars, lambda_vars, token_vars >>

\* split_audio_to_chunks is entered; ffprobe reports the same duration again
HandlerSplitCall ==
    /\ hpc = "split"
    /\ pc = "idle"
    /\ Call
    /\ total_duration' = hlocals.audio_duration

\* split_audio_to_chunks is entered and its get_audio_duration raises
HandlerSplitProbeFails ==
    /\ hpc = "split"
    /\ pc = "idle"
    /\ ProbeFails

\* one step of the loop of split_audio_to_chunks
HandlerSplitStep ==
    /\ hpc = "split"
    /\ \/ EmitChunk
       \/ ShortTailMerge
       \/ LoopExit
       \/ ExtractFails

\* chunks = split_audio_to_chunks(...): the chunk files are in chunk_dir
HandlerSplitReturned ==
    /\ hpc = "split"
    /\ pc = "returned"
    /\ hpc' = "upload"
    /\ hlocals' = [ hlocals EXCEPT !.chunks = chunks ]
    /\ tmp' = [ tmp EXCEPT !.chunks = @ \cup { chunks[i].local_path : i \in DOMAIN chunks } ]
    /\ UNCHANGED << hevent, hs3, hresult >>
    /\ UNCHANGED << planner_vars, pipeline_vars, lambda_vars, token_vars >>

\* split_audio_to_chunks raised; ffmpeg may have written files before
HandlerSplitRaised ==
    /\ hpc = "split"
    /\ pc = "raised"
    /\ \E written \in SUBSET { output_path(0) } :
          HandlerRaises(raised, [ tmp EXCEPT !.chunks = @ \cup written ])
    /\ UNCHANGED << hevent, hlocals, hs3 >>
    /\ UNCHANGED << planner_vars, pipeline_vars, lambda_vars, token_vars >>

\* one pass of "for chunk in chunks": upload, set chunk_key, del local_path
HandlerUpload ==
    /\ hpc = "upload"
    /\ hlocals.uploads < Len(hlocals.chunks)
    /\ LET k == hlocals.uploads + 1
       IN  /\ hs3' = hs3 \cup { uploaded(hlocals.chunks[k]).chunk_key }
           /\ hlocals' = [ hlocals EXCEPT !.chunks[k] = uploaded(@), !.uploads = k ]
    /\ UNCHANGED << hpc, hevent, tmp, hresult >>
    /\ UNCHANGED << planner_vars, pipeline_vars, lambda_vars, token_vars >>

\* s3.upload_file raises
HandlerUploadFails ==
    /\ hpc = "upload"
    /\ hlocals.uploads < Len(hlocals.chunks)
    /\ HandlerRaises("S3UploadFailedError", tmp)
    /\ UNCHANGED << hevent, hlocals, hs3 >>
    /\ UNCHANGED << planner_vars, pipeline_vars, lambda_vars, token_vars >>

\* the return statement, then the finally block
HandlerReturn ==
    /\ hpc = "upload"
    /\ hlocals.uploads = Len(hlocals.chunks)
    /\ hpc' = "returned"
    /\ tmp' = cleaned(tmp)
    /\ hresult' = [ kind           |-> "returned",
                    audio_duration |-> hlocals.audio_duration,
                    chunks         |-> hlocals.chunks,
                    total_chunks   |-> Len(hlocals.chunks),
                    chunk_config   |-> [ chunk_duration   |-> chunk_duration,
                                         overlap_duration |-> overlap_duration ] ]
    /\ UNCHANGED << hevent, hlocals, hs3 >>
    /\ UNCHANGED << planner_vars, pipeline_vars, lambda_vars, token_vars >>

\* The handler is invoked once: any event, a clean /tmp or one with files a
\* killed invocation left behind, any configuration of the environment.
InitHandler ==
    /\ \/ /\ chunk_duration \in 1..MaxChunkDuration
          /\ overlap_duration \in 0..MaxChunkDuration
          /\ overlap_duration <= chunk_duration
          /\ min_chunk_duration \in 0..MaxMinChunk
       \/ /\ chunk_duration = CHUNK_DURATION
          /\ overlap_duration = OVERLAP_DURATION
          /\ min_chunk_duration = MIN_CHUNK_DURATION
    /\ total_duration = 0
    /\ chunks = << >>
    /\ chunk_index = 0
    /\ current_pos = 0
    /\ pc = "idle"
    /\ merged = FALSE
    /\ raised = "none"
    /\ calls = 0
    /\ snap = NoSnap
    /\ plan = << >>
    /\ turns = << >>
    /\ s3 = {}
    /\ dstate = << >>
    /\ astate = "idle"
    /\ aevent = "none"
    /\ aresponse = "none"
    /\ hpc = "start"
    /\ hevent \in [ bucket : BOOLEAN, audio_key : BOOLEAN ]
    /\ tmp \in { [ audio |-> FALSE, chunks |-> {} ],
                 [ audio |-> TRUE, chunks |-> { output_path(0), << "stale", format_02d(0) >> } ] }
    /\ hlocals = [ audio_duration |-> 0, chunks |-> << >>, downloads |-> 0, uploads |-> 0 ]
    /\ hs3 = {}
    /\ hresult = [ kind |-> "none" ]
    /\ LambdaOff
    /\ TokenOff

NextHandler ==
    \/ HandlerMissingKey
    \/ HandlerDownload
    \/ HandlerDownloadFails
    \/ HandlerProbe
    \/ HandlerProbeFails
    \/ HandlerSplitCall
    \/ HandlerSplitProbeFails
    \/ HandlerSplitStep
    \/ HandlerSplitReturned
    \/ HandlerSplitRaised
    \/ HandlerUpload
    \/ HandlerUploadFails
    \/ HandlerReturn

SpecHandler == InitHandler /\ [][NextHandler]_vars

\* ----------------------------------------------------- vocabulary, handler
HandlerReturned == hresult.kind = "returned"

HandlerRaised == hresult.kind = "raised"

\* ------------------------------------------------------------------- C27
\* C27: the list split_audio_to_chunks returns is ordered and densely
\* indexed: element k (from 0) has chunk_index k and offset k * (chunk_duration
\* - overlap_duration), offsets increase strictly and are below
\* total_duration; the handler returns total_chunks = the length of that
\* list, every chunk with a chunk_key and without local_path.
C27_OrderedDense ==
    /\ Returned =>
          \A k \in DOMAIN chunks :
              /\ chunks[k].chunk_index = k - 1
              /\ chunks[k].offset = (k - 1) * (chunk_duration - overlap_duration)
              /\ chunks[k].offset < total_duration
              /\ k > 1 => chunks[k - 1].offset < chunks[k].offset
    /\ HandlerReturned =>
          /\ hresult.total_chunks = Len(hresult.chunks)
          /\ Len(hresult.chunks) = Len(chunks)
          /\ \A k \in DOMAIN hresult.chunks :
                /\ "chunk_key" \in DOMAIN hresult.chunks[k]
                /\ "local_path" \notin DOMAIN hresult.chunks[k]
                /\ hresult.chunks[k].chunk_index = chunks[k].chunk_index
                /\ hresult.chunks[k].offset = chunks[k].offset
                /\ hresult.chunks[k].chunk_key \in hs3

\* 1200 s under the defaults: three chunks at 0, 450, 900, all uploaded
C27_Witness ==
    /\ HandlerReturned
    /\ chunk_duration = CHUNK_DURATION
    /\ total_duration = 1200
    /\ hresult.total_chunks = 3
    /\ hresult.chunks[3].chunk_index = 2
    /\ hresult.chunks[3].offset = 900
    /\ hresult.chunks[3].chunk_key = << "chunks", output_path(2) >>

\* ------------------------------------------------------------------- C21
\* C21: an event without 'bucket' or without 'audio_key' makes the handler
\* raise KeyError, and nothing has been downloaded, split or uploaded.
C21_MissingKeyRaisesFirst ==
    (hpc # "off" /\ (~hevent.bucket \/ ~hevent.audio_key)) =>
        /\ hpc \in {"start", "raised"}
        /\ hpc = "raised" => hresult = [ kind |-> "raised", error |-> "KeyError" ]
        /\ hlocals.downloads = 0
        /\ hlocals.uploads = 0
        /\ hs3 = {}
        /\ calls = 0
        /\ pc = "idle"

\* the event of test_lambda_handler_missing_bucket has raised KeyError
C21_Witness ==
    /\ ~hevent.bucket
    /\ hevent.audio_key
    /\ hpc = "raised"
    /\ hresult.error = "KeyError"
    /\ hlocals.downloads = 0

\* ------------------------------------------------------------------- C30
\* C30: on every exit of the handler after the download step has started,
\* /tmp/audio.wav and every file of the chunk directory are gone; after an
\* exception no chunk list is returned.
C30_CleanupOnEveryExit ==
    /\ (hpc \in {"returned", "raised"} /\ hlocals.downloads > 0)
          => ~tmp.audio /\ tmp.chunks = {}
    /\ hpc = "raised"
          => /\ hresult.kind = "raised"
             /\ "chunks" \notin DOMAIN hresult

\* the second of two uploads failed: /tmp is clean, nothing was returned
C30_Witness ==
    /\ hpc = "raised"
    /\ hresult.error = "S3UploadFailedError"
    /\ Len(hlocals.chunks) = 2
    /\ hlocals.uploads = 1
    /\ ~tmp.audio
    /\ tmp.chunks = {}

\* ------------------------------------------------------------------- C29
\* C29: in every stored speaker entry total_duration and segment_count
\* describe the turns that were averaged: total_duration is the sum of
\* their lengths and segment_count is their number.
C29_CountAndDurationOfUsedTurns ==
    \A i \in DOMAIN plan :
        Stored(i) =>
            \A label \in DOMAIN speakers_of(i) :
                /\ speakers_of(i)[label].total_duration =
                       SumOver(UsableTurns(i, label),
                               [ k \in DOMAIN turns[i] |-> TurnLength(turns[i][k]) ])
                /\ speakers_of(i)[label].segment_count =
                       Cardinality(UsableTurns(i, label))

\* ------------------------------------------------------------------- C28
\* the largest chunk index whose object names are compared
MaxIndex == 120

\* the number a digit sequence writes
RECURSIVE number(_)
number(ds) ==
    IF ds = << >> THEN 0 ELSE 10 * number(SubSeq(ds, 1, Len(ds) - 1)) + ds[Len(ds)]

\* the chunk index read back from an object name: the names of two indices
\* are distinct when each index can be read back from its name
index_of(name) == number(name[2])

\* the fields handle_chunk_input copies from the chunk of its event
carries(body, chunk) ==
    /\ body.chunk_index = chunk.chunk_index
    /\ body.offset = chunk.offset
    /\ body.effective_start = chunk.effective_start
    /\ body.effective_end = chunk.effective_end

\* C28: chunk diarizer invocations do not interfere: distinct chunk_index
\* values give distinct chunk_key and distinct result_key names, under any
\* interleaving or retry an invocation for one chunk leaves every other
\* chunk's stored result as it was, and the stored result of chunk i carries
\* chunk i's own chunk_index, offset, effective_start and effective_end.
C28_NoInterference ==
    /\ \A n \in 0..MaxIndex :
          /\ index_of(output_path(n)) = n
          /\ index_of(uploaded(NewChunk(0, n)).chunk_key[2]) = n
          /\ index_of(result_key(uploaded(NewChunk(0, n)))[2]) = n
    /\ [](/\ \A i, j \in DOMAIN plan :
                plan[i].chunk_index # plan[j].chunk_index =>
                    /\ plan[i].chunk_key # plan[j].chunk_key
                    /\ result_key(plan[i]) # result_key(plan[j])
          /\ \A i \in DOMAIN plan :
                Stored(i) => /\ is_stored(s3, i)
                             /\ carries(stored_result(s3, i), plan[i]))
    /\ [][\A i \in DOMAIN plan :
            Stored(i) => /\ Stored(i)'
                         /\ stored_result(s3', i) = stored_result(s3, i)]_vars

C28_Witness ==
    /\ Len(plan) = 2
    /\ Stored(1) /\ Stored(2)
    /\ plan[1].chunk_index = 0 /\ plan[2].chunk_index = 1
    /\ stored_result(s3, 1).offset = 0
    /\ stored_result(s3, 2).offset = 450
    /\ stored_result(s3, 2).effective_start = 450
    /\ stored_result(s3, 2).effective_end = 600

\* ======================================================= diarizer, handler
\* src/lambdas/diarize/lambda_function.py: lambda_handler and the two
\* handler functions it dispatches to

\* invocations of diarize.lambda_handler in one run
MaxInvocations == 2

\* a mutant of dispatch: "audio_key" is tested before "chunk"
dispatch_audio_key_first(event) ==
    IF event.audio_key THEN "legacy"
    ELSE IF event.chunk THEN "chunk"
    ELSE "KeyError"

\* if "chunk" in event: ... elif "audio_key" in event: ... else: raise KeyError
dispatch(event) ==
    IF event.chunk THEN "chunk"
    ELSE IF event.audio_key THEN "legacy"
    ELSE "KeyError"

\* the segments list of handle_legacy_input: start, end, speaker
legacy_segment(seg) ==
    [ start |-> seg.local_start, end |-> seg.local_end, speaker |-> seg.local_speaker ]

\* segments_key = f"{base_key}_segments.json"
segments_key == << "recording", "segments" >>

\* the events lambda_handler may receive: any combination of the keys
\* "chunk", "audio_key" and "bucket"; index is the chunk of the plan that
\* event["chunk"] is, and the audio that event["audio_key"] names
Events ==
    [ chunk : BOOLEAN, audio_key : BOOLEAN, bucket : BOOLEAN, index : DOMAIN plan ]

\* neither key: KeyError is raised by lambda_handler itself
LambdaHandlerKeyError ==
    /\ lpc = "start"
    /\ dispatch(levent) = "KeyError"
    /\ lpc' = "raised"
    /\ lresult' = [ kind |-> "raised", path |-> "none", error |-> "KeyError" ]
    /\ UNCHANGED << levent, linvocations, ldownloads >>
    /\ UNCHANGED << planner_vars, pipeline_vars, handler_vars, token_vars >>

\* handle_chunk_input runs to its return
LambdaHandlerChunk ==
    /\ lpc = "start"
    /\ dispatch(levent) = "chunk"
    /\ levent.bucket
    /\ ldownloads' = ldownloads + 1
    /\ s3' = put_object(s3, result_key(plan[levent.index]),
                        detailed_result(plan[levent.index], turns[levent.index]))
    /\ dstate' = [ dstate EXCEPT ![levent.index] = "stored" ]
    /\ lpc' = "returned"
    /\ lresult' = [ kind |-> "returned", path |-> "chunk",
                    body |-> [ chunk_index |-> plan[levent.index].chunk_index,
                               result_key |-> result_key(plan[levent.index]),
                               speaker_count |-> Cardinality(labels(turns[levent.index])) ] ]
    /\ UNCHANGED << levent, linvocations >>
    /\ UNCHANGED << plan, turns, astate, aevent, aresponse >>
    /\ UNCHANGED << planner_vars, handler_vars, token_vars >>

\* handle_chunk_input raises: event["bucket"] is missing (before any
\* download), or download_file or a later step raises; nothing is stored
LambdaHandlerChunkRaises ==
    /\ lpc = "start"
    /\ dispatch(levent) = "chunk"
    /\ \/ /\ ~levent.bucket
          /\ lresult' = [ kind |-> "raised", path |-> "chunk", error |-> "KeyError" ]
          /\ UNCHANGED ldownloads
       \/ /\ levent.bucket
          /\ lresult' = [ kind |-> "raised", path |-> "chunk", error |-> "Exception" ]
          /\ ldownloads' = ldownloads + 1
    /\ lpc' = "raised"
    /\ UNCHANGED << levent, linvocations >>
    /\ UNCHANGED << planner_vars, pipeline_vars, handler_vars, token_vars >>

\* handle_legacy_input runs to its return
LambdaHandlerLegacy ==
    /\ lpc = "start"
    /\ dispatch(levent) = "legacy"
    /\ levent.bucket
    /\ ldownloads' = ldownloads + 1
    /\ s3' = put_object(s3, segments_key,
                        [ k \in DOMAIN turns[levent.index] |->
                            legacy_segment(turns[levent.index][k]) ])
    /\ lpc' = "returned"
    /\ lresult' = [ kind |-> "returned", path |-> "legacy",
                    body |-> [ segments_key |-> segments_key,
                               speaker_count |-> Cardinality(labels(turns[levent.index])) ] ]
    /\ UNCHANGED << levent, linvocations >>
    /\ UNCHANGED << plan, turns, dstate, astate, aevent, aresponse >>
    /\ UNCHANGED << planner_vars, handler_vars, token_vars >>

\* handle_legacy_input raises: event["bucket"] is missing (before any
\* download), or download_file or a later step raises; nothing is stored
LambdaHandlerLegacyRaises ==
    /\ lpc = "start"
    /\ dispatch(levent) = "legacy"
    /\ \/ /\ ~levent.bucket
          /\ lresult' = [ kind |-> "raised", path |-> "legacy", error |-> "KeyError" ]
          /\ UNCHANGED ldownloads
       \/ /\ levent.bucket
          /\ lresult' = [ kind |-> "raised", path |-> "legacy", error |-> "Exception" ]
          /\ ldownloads' = ldownloads + 1
    /\ lpc' = "raised"
    /\ UNCHANGED << levent, linvocations >>
    /\ UNCHANGED << planner_vars, pipeline_vars, handler_vars, token_vars >>

\* the next invocation, with its own event
LambdaInvoke ==
    /\ lpc \in {"returned", "raised"}
    /\ linvocations < MaxInvocations
    /\ levent' \in Events
    /\ lpc' = "start"
    /\ linvocations' = linvocations + 1
    /\ UNCHANGED << lresult, ldownloads >>
    /\ UNCHANGED << planner_vars, pipeline_vars, handler_vars, token_vars >>

\* a planned recording of one or two chunks and the first invocation
InitLambda ==
    /\ chunk_duration = CHUNK_DURATION
    /\ overlap_duration = OVERLAP_DURATION
    /\ min_chunk_duration = MIN_CHUNK_DURATION
    /\ total_duration \in PipelineDurations
    /\ chunks = PlanFrom(0, 0, << >>).chunks
    /\ chunk_index = PlanFrom(0, 0, << >>).chunk_index
    /\ current_pos = PlanFrom(0, 0, << >>).current_pos
    /\ merged = PlanFrom(0, 0, << >>).merged
    /\ pc = "returned"
    /\ raised = "none"
    /\ calls = 1
    /\ snap = NoSnap
    /\ plan = [ i \in DOMAIN chunks |-> uploaded(chunks[i]) ]
    /\ turns \in [ DOMAIN chunks -> ExampleTurnLists \cup { << >> } ]
    /\ s3 = {}
    /\ dstate = [ i \in DOMAIN chunks |-> "pending" ]
    /\ astate = "idle"
    /\ aevent = "none"
    /\ aresponse = "none"
    /\ HandlerOff
    /\ levent \in Events
    /\ lpc = "start"
    /\ lresult = [ kind |-> "none" ]
    /\ linvocations = 1
    /\ ldownloads = 0
    /\ TokenOff

NextLambda ==
    \/ LambdaHandlerKeyError
    \/ LambdaHandlerChunk
    \/ LambdaHandlerChunkRaises
    \/ LambdaHandlerLegacy
    \/ LambdaHandlerLegacyRaises
    \/ LambdaInvoke

SpecLambda == InitLambda /\ [][NextLambda]_vars

\* ------------------------------------------------------------------- C22
\* C22: diarize.lambda_handler dispatches on the event shape: an event with
\* "chunk" is handled by the chunk path, also when "audio_key" is present;
\* an event with "audio_key" and no "chunk" by the legacy path; an event
\* with neither raises KeyError, and that invocation downloads nothing and
\* writes nothing.
C22_DispatchOnShape ==
    [][(lpc = "start" /\ lpc' # "start") =>
          /\ levent.chunk => lresult'.path = "chunk"
          /\ (levent.audio_key /\ ~levent.chunk) => lresult'.path = "legacy"
          /\ lresult'.path = "chunk" =>
                /\ ~has_object(s3', segments_key) \/ has_object(s3, segments_key)
                /\ lresult'.kind = "returned" =>
                      /\ has_object(s3', result_key(plan[levent.index]))
                      /\ lresult'.body.result_key = result_key(plan[levent.index])
          /\ lresult'.path = "legacy" =>
                /\ \A i \in DOMAIN plan : is_stored(s3', i) <=> is_stored(s3, i)
                /\ lresult'.kind = "returned" =>
                      /\ has_object(s3', segments_key)
                      /\ lresult'.body.segments_key = segments_key
          /\ (~levent.chunk /\ ~levent.audio_key) =>
                /\ lresult' = [ kind |-> "raised", path |-> "none", error |-> "KeyError" ]
                /\ ldownloads' = ldownloads
                /\ s3' = s3]_vars

\* an event with both keys went through the chunk path and stored a result
C22_Witness ==
    /\ lpc = "returned"
    /\ levent.chunk /\ levent.audio_key /\ levent.bucket
    /\ lresult.path = "chunk"
    /\ is_stored(s3, levent.index)
    /\ ~has_object(s3, segments_key)

\* ============================================================ token manager
\* src/lambdas/shared/google_token_manager.py: get_valid_credentials.
\* Time is counted in units of 25 s from an arbitrary origin.

\* the latest time a run reaches
MaxNow == 3

\* the latest expiry a stored record starts with
MaxExpiry == 15

\* calls of get_valid_credentials in one run
MaxTokenCalls == 2

\* timedelta(minutes=5)
RefreshMargin == 12

\* google.auth's REFRESH_THRESHOLD (3 min 45 s), which credentials.expired
\* subtracts from the expiry
REFRESH_THRESHOLD == 9

\* expires_in of a refreshed token: one that is within the margin at once,
\* one that is not
Lifetimes == {11, 14}

\* encrypt_token / decrypt_token: KMS ciphertext of a token and its inverse
encrypt_token(token) == << "kms", token >>

decrypt_token(encrypted_token) == encrypted_token[2]

\* Credentials(token=..., refresh_token=...) and the expiry set from
\* item["expires_at"] when the record has one
Credentials(it) ==
    [ token             |-> decrypt_token(it.access_token),
      has_refresh_token |-> it.has_refresh_token,
      has_expiry        |-> it.has_expires_at,
      expiry            |-> IF it.has_expires_at THEN it.expires_at ELSE 0 ]

\* credentials.expired of google.auth: no expiry is never expired
expired(c, t) == c.has_expiry /\ t >= c.expiry - REFRESH_THRESHOLD

\* a mutant of needs_refresh: the five minute margin is not looked at
needs_refresh_expired_only(c, t) == expired(c, t)

\* needs_refresh as get_valid_credentials computes it
needs_refresh(c, t) ==
    IF expired(c, t) THEN TRUE
    ELSE IF c.has_expiry THEN c.expiry - t < RefreshMargin
    ELSE FALSE

\* credentials.refresh(Request()) succeeded: a new access token, and the
\* expiry the token endpoint reported
refreshed(c, token, lifetime) ==
    [ c EXCEPT !.token = token, !.has_expiry = TRUE, !.expiry = now + lifetime ]

\* save_updated_tokens: SET access_token, expires_at, updated_at
save_updated_tokens(it, c) ==
    [ it EXCEPT !.access_token = encrypt_token(c.token),
                !.has_expires_at = c.has_expiry,
                !.expires_at = c.expiry,
                !.updated_at = now ]

\* the call ends with an exception
TokenRaises(error) ==
    /\ tpc' = "raised"
    /\ tresult' = [ kind |-> "raised", error |-> error ]

\* get_stored_token returns None
TokenNotFound ==
    /\ tpc = "start"
    /\ ~item.present
    /\ TokenRaises("TokenNotFoundError")
    /\ UNCHANGED << item, now, credentials, tcalls, trefreshes >>
    /\ UNCHANGED << planner_vars, pipeline_vars, handler_vars, lambda_vars >>

\* kms.decrypt or _get_google_oauth_credentials raises
TokenReadFails ==
    /\ tpc = "start"
    /\ item.present
    /\ TokenRaises("Exception")
    /\ UNCHANGED << item, now, credentials, tcalls, trefreshes >>
    /\ UNCHANGED << planner_vars, pipeline_vars, handler_vars, lambda_vars >>

\* needs_refresh is False: return credentials
TokenReturnsStored ==
    /\ tpc = "start"
    /\ item.present
    /\ ~needs_refresh(Credentials(item), now)
    /\ credentials' = Credentials(item)
    /\ tpc' = "returned"
    /\ tresult' = [ kind |-> "returned", credentials |-> credentials' ]
    /\ UNCHANGED << item, now, tcalls, trefreshes >>
    /\ UNCHANGED << planner_vars, pipeline_vars, handler_vars, lambda_vars >>

\* needs_refresh and not refresh_token
TokenNoRefreshToken ==
    /\ tpc = "start"
    /\ item.present
    /\ needs_refresh(Credentials(item), now)
    /\ ~Credentials(item).has_refresh_token
    /\ credentials' = Credentials(item)
    /\ TokenRaises("TokenRefreshError")
    /\ UNCHANGED << item, now, tcalls, trefreshes >>
    /\ UNCHANGED << planner_vars, pipeline_vars, handler_vars, lambda_vars >>

\* credentials.refresh raises
TokenRefreshFails ==
    /\ tpc = "start"
    /\ item.present
    /\ needs_refresh(Credentials(item), now)
    /\ Credentials(item).has_refresh_token
    /\ credentials' = Credentials(item)
    /\ trefreshes' = trefreshes + 1
    /\ TokenRaises("TokenRefreshError")
    /\ UNCHANGED << item, now, tcalls >>
    /\ UNCHANGED << planner_vars, pipeline_vars, handler_vars, lambda_vars >>

\* credentials.refresh returns; save_updated_tokens is next
TokenRefresh ==
    /\ tpc = "start"
    /\ item.present
    /\ needs_refresh(Credentials(item), now)
    /\ Credentials(item).has_refresh_token
    /\ \E lifetime \in Lifetimes :
          credentials' = refreshed(Credentials(item), trefreshes + 1, lifetime)
    /\ trefreshes' = trefreshes + 1
    /\ tpc' = "save"
    /\ UNCHANGED << item, now, tresult, tcalls >>
    /\ UNCHANGED << planner_vars, pipeline_vars, handler_vars, lambda_vars >>

\* save_updated_tokens raises (encrypt_token or update_item)
TokenSaveFails ==
    /\ tpc = "save"
    /\ TokenRaises("TokenRefreshError")
    /\ UNCHANGED << item, now, credentials, tcalls, trefreshes >>
    /\ UNCHANGED << planner_vars, pipeline_vars, handler_vars, lambda_vars >>

\* save_updated_tokens returns; return credentials
TokenSave ==
    /\ tpc = "save"
    /\ item' = save_updated_tokens(item, credentials)
    /\ tpc' = "returned"
    /\ tresult' = [ kind |-> "returned", credentials |-> credentials ]
    /\ UNCHANGED << now, credentials, tcalls, trefreshes >>
    /\ UNCHANGED << planner_vars, pipeline_vars, handler_vars, lambda_vars >>

\* time passes between calls
TokenTick ==
    /\ tpc \in {"returned", "raised"}
    /\ now < MaxNow
    /\ now' = now + 1
    /\ UNCHANGED << item, tpc, credentials, tresult, tcalls, trefreshes >>
    /\ UNCHANGED << planner_vars, pipeline_vars, handler_vars, lambda_vars >>

\* the next call of get_valid_credentials
TokenCall ==
    /\ tpc \in {"returned", "raised"}
    /\ tcalls < MaxTokenCalls
    /\ tcalls' = tcalls + 1
    /\ tpc' = "start"
    /\ credentials' = NoCredentials
    /\ UNCHANGED << item, now, tresult, trefreshes >>
    /\ UNCHANGED << planner_vars, pipeline_vars, handler_vars, lambda_vars >>

\* the records the table may hold for the user
Items ==
    { NoItem } \cup
    { [ present |-> TRUE, access_token |-> encrypt_token(0), has_refresh_token |-> r,
        has_expires_at |-> TRUE, expires_at |-> e, updated_at |-> 0 ]
      : r \in BOOLEAN, e \in 0..MaxExpiry } \cup
    { [ present |-> TRUE, access_token |-> encrypt_token(0), has_refresh_token |-> r,
        has_expires_at |-> FALSE, expires_at |-> 0, updated_at |-> 0 ]
      : r \in BOOLEAN }

InitToken ==
    /\ chunk_duration = CHUNK_DURATION
    /\ overlap_duration = OVERLAP_DURATION
    /\ min_chunk_duration = MIN_CHUNK_DURATION
    /\ total_duration = 0
    /\ chunks = << >>
    /\ chunk_index = 0
    /\ current_pos = 0
    /\ pc = "idle"
    /\ merged = FALSE
    /\ raised = "none"
    /\ calls = 0
    /\ snap = NoSnap
    /\ plan = << >>
    /\ turns = << >>
    /\ s3 = {}
    /\ dstate = << >>
    /\ astate = "idle"
    /\ aevent = "none"
    /\ aresponse = "none"
    /\ HandlerOff
    /\ LambdaOff
    /\ item \in Items
    /\ now \in 0..1
    /\ tpc = "start"
    /\ credentials = NoCredentials
    /\ tresult = [ kind |-> "none" ]
    /\ tcalls = 1
    /\ trefreshes = 0

NextToken ==
    \/ TokenNotFound
    \/ TokenReadFails
    \/ TokenReturnsStored
    \/ TokenNoRefreshToken
    \/ TokenRefreshFails
    \/ TokenRefresh
    \/ TokenSaveFails
    \/ TokenSave
    \/ TokenTick
    \/ TokenCall

SpecToken == InitToken /\ [][NextToken]_vars

\* ------------------------------------------------------ vocabulary, tokens
\* the stored token is expired or expires in less than five minutes
StoredExpiring == item.has_expires_at /\ item.expires_at - now < RefreshMargin

\* this step is the one in which get_valid_credentials decides, on a record
\* it could read
TokenDecides ==
    /\ tpc = "start" /\ tpc' # "start"
    /\ item.present
    /\ ~(tresult'.kind = "raised" /\ tresult'.error = "Exception")

RaisesTokenRefreshError ==
    /\ tpc' = "raised"
    /\ tresult' = [ kind |-> "raised", error |-> "TokenRefreshError" ]

\* ------------------------------------------------------------------- C23
\* C23: get_valid_credentials calls refresh exactly when the stored token is
\* expired or expires in less than five minutes (and a refresh token is
\* stored); when no refresh is needed it returns the stored credentials and
\* does not write to the table; when a refresh is needed and no refresh
\* token is stored, or the refresh fails, it raises TokenRefreshError and
\* the record stays as it was; the record changes only in the step that
\* follows a successful refresh.
C23_RefreshWhenExpiring ==
    [][/\ TokenDecides =>
            /\ trefreshes' # trefreshes <=> (StoredExpiring /\ item.has_refresh_token)
            /\ ~StoredExpiring =>
                  /\ tpc' = "returned"
                  /\ tresult'.credentials.token = decrypt_token(item.access_token)
                  /\ tresult'.credentials.has_expiry = item.has_expires_at
                  /\ item' = item
            /\ (StoredExpiring /\ ~item.has_refresh_token) =>
                  /\ RaisesTokenRefreshError
                  /\ item' = item
            /\ (trefreshes' # trefreshes /\ tpc' # "save") =>
                  /\ RaisesTokenRefreshError
                  /\ item' = item
       /\ tpc' = "raised" => item' = item
       /\ item' # item =>
            /\ tpc = "save" /\ tpc' = "returned"
            /\ credentials.token = trefreshes
            /\ item' = save_updated_tokens(item, credentials)
            /\ decrypt_token(item'.access_token) = tresult'.credentials.token]_vars

\* a stored token 10 units (4 min 10 s) from its expiry, not yet expired
\* for google.auth, has been refreshed; the record still holds the old one
C23_Witness ==
    /\ tpc = "save"
    /\ trefreshes = 1
    /\ item.has_expires_at
    /\ item.expires_at - now = 10
    /\ ~expired(Credentials(item), now)
    /\ item.access_token = encrypt_token(0)
    /\ credentials.token = 1

====
